---- MODULE Spec2Model ----
(***************************************************************************)
(* External lexer support of Scintilla (src/ExternalLexer.cxx): the        *)
(* LexerManager singleton, its LexerLibrary objects, the                   *)
(* ExternalLexerModule objects each library creates and registers in the   *)
(* Catalogue, and the LMMinder object that deletes the manager at exit.    *)
(*                                                                         *)
(* The code is single threaded.  A call runs to completion before the next *)
(* one starts: pc names the statement the running call has reached and is  *)
(* "idle" between calls.  The constructor of LexerLibrary and the          *)
(* destruction of the libraries are modelled statement by statement, since *)
(* the Catalogue and the plugin's accessors are called in between.         *)
(***************************************************************************)
EXTENDS Integers, Sequences, FiniteSets, TLC

\* ------------------------------------------------------------- bounds
\* LexerLibrary objects constructed in one run of the process.
MaxLoads == 2
\* LexerManager objects constructed in one run of the process.
MaxManagers == 2

\* ---------------------------------------------------------- constants
\* char lexname[100]
BufLen == 100
\* SCLEX_AUTOMATIC, the language of every external lexer module.
SCLEX_AUTOMATIC == 1000
\* nullptr as a LexerFactoryFunction.
NullFn == 0
\* What a call through a null accessor may leave behind when it returns.
WildFn == 999
\* No LexerManager: an empty theInstance.
NoInstance == 0

\* ------------------------------------------- the plugins on the disk
\* The paths the host passes to ExternalLexerLoad.
Paths ==
    {"", "bad", "nocount", "noname", "nofact", "zero", "neg", "two",
     "x1", "x2"}

\* DynamicLibrary::Load(path)->IsValid()
IsValid(path) == path \notin {"", "bad"}

AllSymbols == {"GetLexerCount", "GetLexerName", "GetLexerFactory"}

\* The symbols the library at path exports.
Exports(path) ==
    CASE path = "nocount" -> {"GetLexerName", "GetLexerFactory"}
      [] path = "noname"  -> {"GetLexerCount", "GetLexerFactory"}
      [] path = "nofact"  -> {"GetLexerCount", "GetLexerName"}
      [] OTHER            -> AllSymbols

NullPtr == [lib |-> "", sym |-> ""]

\* lib->FindFunction(sym): the accessor, or null.
FindFunction(path, sym) ==
    IF sym \in Exports(path) THEN [lib |-> path, sym |-> sym] ELSE NullPtr

\* GetLexerCount() of the library at path.
PluginCount(path) ==
    CASE path = "zero" -> 0
      [] path = "neg"  -> 0 - 1
      [] path = "two"  -> 2
      [] OTHER         -> 1

\* The name the library at path has for lexer i, as character codes:
\* "Alpha" and a name of 120 characters for "two", "X" for the others.
PluginName(path, i) ==
    CASE path = "two" /\ i = 0 -> <<65, 108, 112, 104, 97>>
      [] path = "two" /\ i = 1 -> [k \in 1..120 |-> 97 + (k % 26)]
      [] OTHER                 -> <<88>>

PathNo(path) ==
    CASE path = "noname" -> 1
      [] path = "nofact" -> 2
      [] path = "two"    -> 3
      [] path = "x1"     -> 4
      [] path = "x2"     -> 5
      [] OTHER           -> 7

\* GetLexerFactory(i) of the library at path; lexer 1 of "two" has none.
PluginFactory(path, i) ==
    IF path = "two" /\ i = 1 THEN NullFn ELSE PathNo(path) * 10 + i + 1

Min(a, b) == IF a < b THEN a ELSE b

\* char lexname[100] = ""
EmptyBuf == [k \in 1..BufLen |-> 0]

\* GetLexerName(i, buf, buflength) of a plugin that honours buflength: at
\* most buflength - 1 characters and the terminator.
WriteName(buf, name, buflength) ==
    LET n == Min(Len(name), buflength - 1)
    IN  [k \in 1..Len(buf) |->
            IF k <= n THEN name[k] ELSE IF k = n + 1 THEN 0 ELSE buf[k]]

\* std::string(const char *): the characters before the first terminator.
CStr(buf) ==
    LET stops == {k \in 1..Len(buf) : buf[k] = 0}
        end   == IF stops = {} THEN Len(buf) + 1
                 ELSE CHOOSE k \in stops : \A j \in stops : k <= j
    IN  SubSeq(buf, 1, end - 1)

\* -------------------------------------------------------------- state
VARIABLES
    phase,        \* "running", "exiting" (static destruction), "exited", "crashed"
    pc,           \* the statement the running call has reached; "idle" between calls
    ret,          \* where LexerManager::Clear returns to
    theInstance,  \* LexerManager::theInstance: NoInstance or the manager's number
    dying,        \* the manager whose destructor is running, or NoInstance
    mgrDtor,      \* per manager constructed, the runs of ~LexerManager
    libraries,    \* LexerManager::libraries of the manager alive (or dying)
    heap,         \* every ExternalLexerModule allocated, by address
    handles,      \* every DynamicLibrary allocated, by address
    catalogue,    \* the pointers Catalogue::AddLexerModule was given, in order
    cur,          \* the LexerLibrary under construction
    resolved,     \* the symbols the last constructor looked up
    invoked,      \* the accessor calls the last constructor made, in order
    nullCalls,    \* calls made through a null accessor
    call,         \* the call running, or the last one when idle
    prevCall,     \* the call before it
    pre           \* the registry and the catalogue as they were when call started

vars ==
    <<phase, pc, ret, theInstance, dying, mgrDtor, libraries, heap, handles,
      catalogue, cur, resolved, invoked, nullCalls, call, prevCall, pre>>

\* A LexerLibrary whose constructor has not started.
NoFrame ==
    [path |-> "", moduleName |-> "", lib |-> 0, modules |-> <<>>, i |-> 0,
     nl |-> 0, lexname |-> <<>>, buflength |-> 0, lex |-> 0,
     GetLexerName |-> NullPtr, fnFactory |-> NullPtr]

NoCall == [op |-> "none", path |-> ""]

Snapshot ==
    [libraries |-> libraries, catalogue |-> catalogue,
     theInstance |-> theInstance]

Init ==
    /\ phase = "running"
    /\ pc = "idle"
    /\ ret = "idle"
    /\ theInstance = NoInstance
    /\ dying = NoInstance
    /\ mgrDtor = <<>>
    /\ libraries = <<>>
    /\ heap = <<>>
    /\ handles = <<>>
    /\ catalogue = <<>>
    /\ cur = NoFrame
    /\ resolved = {}
    /\ invoked = <<>>
    /\ nullCalls = 0
    /\ call = NoCall
    /\ prevCall = NoCall
    /\ pre = Snapshot

\* A call starts: the history moves on.
Begin(c) ==
    /\ call' = c
    /\ prevCall' = call
    /\ pre' = Snapshot

SameCall == UNCHANGED <<call, prevCall, pre>>

\* ------------------------------------------------- LexerManager, part 1
\* GetInstance makes a new manager on every call.
InstanceAlwaysNew == Len(mgrDtor) + 1

\* if (!theInstance) theInstance.reset(new LexerManager);
InstanceAfterGet ==
    IF theInstance = NoInstance THEN Len(mgrDtor) + 1 ELSE theInstance

MgrDtorAfterGet ==
    IF theInstance = NoInstance THEN Append(mgrDtor, 0) ELSE mgrDtor

\* Load matches any path a library was ever opened for.
MatchesEverLoaded(libs, path) ==
    \E h \in 1..Len(handles) : handles[h].valid /\ handles[h].path = path

\* Load finds no match, whatever is retained.
MatchesNever(libs, path) == FALSE

\* Load takes any retained library for a match.
MatchesAny(libs, path) == libs # <<>>

\* The loop of LexerManager::Load: some library's moduleName equals path.
Matches(libs, path) == \E k \in 1..Len(libs) : libs[k].moduleName = path

\* LexerManager::GetInstance()
GetInstance ==
    /\ phase = "running" /\ pc = "idle"
    /\ theInstance # NoInstance \/ Len(mgrDtor) < MaxManagers
    /\ theInstance' = InstanceAfterGet
    /\ mgrDtor' = MgrDtorAfterGet
    /\ Begin([op |-> "GetInstance", path |-> ""])
    /\ UNCHANGED <<phase, pc, ret, dying, libraries, heap, handles, catalogue,
                   cur, resolved, invoked, nullCalls>>

\* ExternalLexerLoad(path): GetInstance()->Load(path), up to the return on
\* a match or to the start of new LexerLibrary(path).
ExternalLexerLoad(path) ==
    /\ phase = "running" /\ pc = "idle"
    /\ theInstance # NoInstance \/ Len(mgrDtor) < MaxManagers
    /\ Matches(libraries, path) \/ Len(handles) < MaxLoads
    /\ theInstance' = InstanceAfterGet
    /\ mgrDtor' = MgrDtorAfterGet
    /\ Begin([op |-> "Load", path |-> path])
    /\ IF Matches(libraries, path)
       THEN UNCHANGED <<pc, cur>>
       ELSE /\ pc' = "open"
            /\ cur' = [NoFrame EXCEPT !.path = path]
    /\ UNCHANGED <<phase, ret, dying, libraries, heap, handles, catalogue,
                   resolved, invoked, nullCalls>>

\* ------------------------------------------------------- LexerLibrary
\* The moduleName a new library stores: assigned only if the library opened.
StoredName(path) == IF IsValid(path) THEN path ELSE ""

\* The three symbols are looked up before GetLexerCount is tested.
LookupsEager(path) == IF ~IsValid(path) THEN {} ELSE AllSymbols

\* The symbols the constructor looks up.
Lookups(path) ==
    IF ~IsValid(path) THEN {}
    ELSE IF FindFunction(path, "GetLexerCount") = NullPtr
         THEN {"GetLexerCount"}
         ELSE AllSymbols

\* GetLexerCount is looked up and called without the test of IsValid().
CallsCountUnchecked(path) == FindFunction(path, "GetLexerCount") # NullPtr

\* if (lib->IsValid()) { ... if (GetLexerCount) {
CallsCount(path) ==
    IsValid(path) /\ FindFunction(path, "GetLexerCount") # NullPtr

\* nl: GetLexerCount is called only if the library opened and exports it.
CountOf(path) == IF CallsCount(path) THEN PluginCount(path) ELSE 0

\* The loop runs once more than the count.
LoopRunsOver(i, nl) == i <= nl

\* The loop stops one lexer early.
LoopStopsEarly(i, nl) == i < nl - 1

\* for (int i = 0; i < nl; i++)
LoopContinues(i, nl) == i < nl

\* The constructor up to the loop: open the library, look the accessors up,
\* call GetLexerCount.
Open ==
    /\ pc = "open"
    /\ handles' = Append(handles, [path |-> cur.path,
                                   valid |-> IsValid(cur.path),
                                   open |-> IsValid(cur.path)])
    /\ resolved' = Lookups(cur.path)
    /\ invoked' = IF CallsCount(cur.path)
                  THEN <<[fn |-> "GetLexerCount", idx |-> 0]>>
                  ELSE <<>>
    /\ cur' = [cur EXCEPT
                 !.lib = Len(handles) + 1,
                 !.moduleName = StoredName(cur.path),
                 !.GetLexerName =
                     IF CallsCount(cur.path)
                     THEN FindFunction(cur.path, "GetLexerName") ELSE NullPtr,
                 !.fnFactory =
                     IF CallsCount(cur.path)
                     THEN FindFunction(cur.path, "GetLexerFactory") ELSE NullPtr,
                 !.nl = CountOf(cur.path),
                 !.i = 0]
    /\ pc' = IF LoopContinues(0, CountOf(cur.path)) THEN "name" ELSE "push"
    /\ SameCall
    /\ UNCHANGED <<phase, ret, theInstance, dying, mgrDtor, libraries, heap,
                   catalogue, nullCalls>>

\* The capacity passed is one more than the buffer holds.
SizeofPlusOne == Len(EmptyBuf) + 1

\* sizeof(lexname), the capacity GetLexerName is given.
SizeofLexname == Len(EmptyBuf)

\* char lexname[100] = ""; GetLexerName(i, lexname, sizeof(lexname));
\* A call through a null GetLexerName is undefined: the process dies, or
\* the call comes back having written nothing.
GetName ==
    /\ pc = "name"
    /\ \/ /\ cur.GetLexerName # NullPtr
          /\ cur' = [cur EXCEPT
                       !.buflength = SizeofLexname,
                       !.lexname = WriteName(EmptyBuf,
                                             PluginName(cur.path, cur.i),
                                             SizeofLexname)]
          /\ invoked' = Append(invoked, [fn |-> "GetLexerName", idx |-> cur.i])
          /\ pc' = "new"
          /\ UNCHANGED <<phase, nullCalls>>
       \/ /\ cur.GetLexerName = NullPtr
          /\ nullCalls' = nullCalls + 1
          /\ pc' = "crashed"
          /\ phase' = "crashed"
          /\ UNCHANGED <<cur, invoked>>
       \/ /\ cur.GetLexerName = NullPtr
          /\ nullCalls' = nullCalls + 1
          /\ cur' = [cur EXCEPT !.buflength = SizeofLexname,
                                 !.lexname = EmptyBuf]
          /\ pc' = "new"
          /\ UNCHANGED <<phase, invoked>>
    /\ SameCall
    /\ UNCHANGED <<ret, theInstance, dying, mgrDtor, libraries, heap, handles,
                   catalogue, resolved>>

\* ExternalLexerModule(SCLEX_AUTOMATIC, nullptr, lexname, nullptr)
NewModule(lexname, lib, index) ==
    [alive |-> TRUE, name |-> CStr(lexname), language |-> SCLEX_AUTOMATIC,
     fneFactory |-> NullPtr, fnFactory |-> NullFn, binds |-> 0,
     lib |-> lib, index |-> index]

\* Catalogue::AddLexerModule(lex)
AddLexerModule(cat, lex) == Append(cat, lex)

\* new ExternalLexerModule(...); Catalogue::AddLexerModule(lex);
Register ==
    /\ pc = "new"
    /\ heap' = Append(heap, NewModule(cur.lexname, cur.lib, cur.i))
    /\ catalogue' = AddLexerModule(catalogue, Len(heap) + 1)
    /\ cur' = [cur EXCEPT !.lex = Len(heap) + 1]
    /\ pc' = "retain"
    /\ SameCall
    /\ UNCHANGED <<phase, ret, theInstance, dying, mgrDtor, libraries, handles,
                   resolved, invoked, nullCalls>>

\* modules.push_back(std::unique_ptr<ExternalLexerModule>(lex));
Retain ==
    /\ pc = "retain"
    /\ cur' = [cur EXCEPT !.modules = Append(@, cur.lex)]
    /\ pc' = "bind"
    /\ SameCall
    /\ UNCHANGED <<phase, ret, theInstance, dying, mgrDtor, libraries, heap,
                   handles, catalogue, resolved, invoked, nullCalls>>

\* SetExternal does nothing.
SetExternalSkipped(m, fFactory, value) == m

\* ExternalLexerModule::SetExternal: fneFactory = fFactory;
\* fnFactory = fFactory(index), value being what that call returned.
SetExternal(m, fFactory, value) ==
    [m EXCEPT !.fneFactory = fFactory, !.fnFactory = value, !.binds = @ + 1]

\* lex->SetExternal(fnFactory, i); then i++ and the loop test.  A call
\* through a null fnFactory is undefined: the process dies, or the call
\* comes back with any value.
Bind ==
    /\ pc = "bind"
    /\ \/ /\ cur.fnFactory # NullPtr
          /\ heap' = [heap EXCEPT ![cur.lex] =
                        SetExternal(@, cur.fnFactory,
                                    PluginFactory(cur.path, cur.i))]
          /\ invoked' = Append(invoked, [fn |-> "GetLexerFactory", idx |-> cur.i])
          /\ cur' = [cur EXCEPT !.i = @ + 1]
          /\ pc' = IF LoopContinues(cur.i + 1, cur.nl) THEN "name" ELSE "push"
          /\ UNCHANGED <<phase, nullCalls>>
       \/ /\ cur.fnFactory = NullPtr
          /\ nullCalls' = nullCalls + 1
          /\ heap' = [heap EXCEPT ![cur.lex].fneFactory = cur.fnFactory]
          /\ pc' = "crashed"
          /\ phase' = "crashed"
          /\ UNCHANGED <<cur, invoked>>
       \/ /\ cur.fnFactory = NullPtr
          /\ nullCalls' = nullCalls + 1
          /\ \E v \in {NullFn, WildFn} :
                heap' = [heap EXCEPT ![cur.lex] = SetExternal(@, cur.fnFactory, v)]
          /\ cur' = [cur EXCEPT !.i = @ + 1]
          /\ pc' = IF LoopContinues(cur.i + 1, cur.nl) THEN "name" ELSE "push"
          /\ UNCHANGED <<phase, invoked>>
    /\ SameCall
    /\ UNCHANGED <<ret, theInstance, dying, mgrDtor, libraries, handles,
                   catalogue, resolved>>

\* The LexerLibrary the constructor leaves; reqPath is the constructor's
\* argument, kept to tell which call made the library.
Constructed(f) ==
    [id |-> f.lib, moduleName |-> f.moduleName, modules |-> f.modules,
     reqPath |-> f.path]

\* The new library is put in front of the others.
PushFront ==
    /\ pc = "push"
    /\ libraries' = <<Constructed(cur)>> \o libraries
    /\ cur' = NoFrame
    /\ pc' = "idle"
    /\ SameCall
    /\ UNCHANGED <<phase, ret, theInstance, dying, mgrDtor, heap, handles,
                   catalogue, resolved, invoked, nullCalls>>

\* libraries.push_back(std::unique_ptr<LexerLibrary>(lib)); Load returns.
Push ==
    /\ pc = "push"
    /\ libraries' = Append(libraries, Constructed(cur))
    /\ cur' = NoFrame
    /\ pc' = "idle"
    /\ SameCall
    /\ UNCHANGED <<phase, ret, theInstance, dying, mgrDtor, heap, handles,
                   catalogue, resolved, invoked, nullCalls>>

\* ------------------------------------------------- LexerManager, part 2
\* The modules of a library are destroyed, but for the last one.
DestroyModulesButLast(h, ms) ==
    [a \in 1..Len(h) |->
        IF \E k \in 1..(Len(ms) - 1) : ms[k] = a
        THEN [h[a] EXCEPT !.alive = FALSE]
        ELSE h[a]]

\* ~std::vector<std::unique_ptr<ExternalLexerModule>>: the modules of a
\* library are destroyed.
DestroyModules(h, ms) ==
    [a \in 1..Len(h) |->
        IF \E k \in 1..Len(ms) : ms[k] = a
        THEN [h[a] EXCEPT !.alive = FALSE]
        ELSE h[a]]

\* ~DynamicLibrary: the library is unloaded.
Unloaded(hs, id) == [hs EXCEPT ![id].open = FALSE]

\* The manager is deleted and the pointer to it is kept.
DeleteKeepsPointer(after) ==
    IF theInstance = NoInstance
    THEN /\ pc' = after
         /\ UNCHANGED <<theInstance, dying, ret>>
    ELSE /\ dying' = theInstance
         /\ pc' = "clear"
         /\ ret' = after
         /\ UNCHANGED theInstance

\* The pointer is emptied and the manager is not deleted.
ReleaseInstance(after) ==
    /\ theInstance' = NoInstance
    /\ pc' = after
    /\ UNCHANGED <<dying, ret>>

\* theInstance.reset(), also the body of ~std::unique_ptr: the pointer is
\* emptied and the manager it held, if any, is deleted; ~LexerManager calls
\* Clear(), which returns to after.
ResetInstance(after) ==
    IF theInstance = NoInstance
    THEN /\ pc' = after
         /\ UNCHANGED <<theInstance, dying, ret>>
    ELSE /\ theInstance' = NoInstance
         /\ dying' = theInstance
         /\ pc' = "clear"
         /\ ret' = after

\* LexerManager::Clear(), called on the instance.
Clear ==
    /\ phase = "running" /\ pc = "idle"
    /\ theInstance # NoInstance
    /\ Begin([op |-> "Clear", path |-> ""])
    /\ pc' = "clear"
    /\ ret' = "idle"
    /\ UNCHANGED <<phase, theInstance, dying, mgrDtor, libraries, heap, handles,
                   catalogue, cur, resolved, invoked, nullCalls>>

\* libraries.clear() stops after the first library.
ClearEndsAfterOne(libs) == libs = <<>> \/ Len(libs) < Len(pre.libraries)

\* libraries.clear() ends when no library is left.
ClearEnds(libs) == libs = <<>>

\* Of the library being destroyed, the DynamicLibrary is released first and
\* the modules are left for later.
ClearStepUnloadsFirst ==
    /\ pc = "clear"
    /\ \/ /\ ~ClearEnds(libraries)
          /\ handles' = Unloaded(handles, Head(libraries).id)
          /\ pc' = "unload"
          /\ UNCHANGED <<phase, dying, mgrDtor, heap, libraries>>
       \/ /\ ClearEnds(libraries)
          /\ pc' = ret
          /\ phase' = IF ret = "exited" THEN "exited" ELSE phase
          /\ dying' = NoInstance
          /\ mgrDtor' = IF dying = NoInstance THEN mgrDtor
                        ELSE [mgrDtor EXCEPT ![dying] = @ + 1]
          /\ UNCHANGED <<heap, libraries, handles>>
    /\ SameCall
    /\ UNCHANGED <<ret, theInstance, catalogue, cur, resolved, invoked,
                   nullCalls>>

\* libraries.clear(): the libraries are destroyed first to last.  Of one
\* library, ~LexerLibrary destroys the members in reverse order of
\* declaration: moduleName, modules, lib.
ClearStep ==
    /\ pc = "clear"
    /\ \/ /\ ~ClearEnds(libraries)
          /\ heap' = DestroyModules(heap, Head(libraries).modules)
          /\ libraries' = [libraries EXCEPT ![1].modules = <<>>]
          /\ pc' = "unload"
          /\ UNCHANGED <<phase, dying, mgrDtor>>
       \/ /\ ClearEnds(libraries)
          /\ pc' = ret
          /\ phase' = IF ret = "exited" THEN "exited" ELSE phase
          /\ dying' = NoInstance
          /\ mgrDtor' = IF dying = NoInstance THEN mgrDtor
                        ELSE [mgrDtor EXCEPT ![dying] = @ + 1]
          /\ UNCHANGED <<heap, libraries>>
    /\ SameCall
    /\ UNCHANGED <<ret, theInstance, handles, catalogue, cur, resolved,
                   invoked, nullCalls>>

\* The last member of the library being destroyed: its DynamicLibrary.
Unload ==
    /\ pc = "unload"
    /\ handles' = Unloaded(handles, Head(libraries).id)
    /\ libraries' = Tail(libraries)
    /\ pc' = "clear"
    /\ SameCall
    /\ UNCHANGED <<phase, ret, theInstance, dying, mgrDtor, heap, catalogue,
                   cur, resolved, invoked, nullCalls>>

\* LexerManager::DeleteInstance()
DeleteInstance ==
    /\ phase = "running" /\ pc = "idle"
    /\ Begin([op |-> "DeleteInstance", path |-> ""])
    /\ ResetInstance("idle")
    /\ UNCHANGED <<phase, mgrDtor, libraries, heap, handles, catalogue, cur,
                   resolved, invoked, nullCalls>>

\* ------------------------------------------------------------ LMMinder
\* The process exits: minder, defined last, is destroyed first, and
\* ~LMMinder calls LexerManager::DeleteInstance().
Exit ==
    /\ phase = "running" /\ pc = "idle"
    /\ Begin([op |-> "Exit", path |-> ""])
    /\ phase' = "exiting"
    /\ ResetInstance("static_dtor")
    /\ UNCHANGED <<mgrDtor, libraries, heap, handles, catalogue, cur,
                   resolved, invoked, nullCalls>>

\* Then LexerManager::theInstance, the std::unique_ptr itself, is destroyed.
StaticDtor ==
    /\ pc = "static_dtor"
    /\ ResetInstance("exited")
    /\ phase' = IF pc' = "exited" THEN "exited" ELSE phase
    /\ SameCall
    /\ UNCHANGED <<mgrDtor, libraries, heap, handles, catalogue, cur,
                   resolved, invoked, nullCalls>>

\* --------------------------------------------------------------- Spec
Next ==
    \/ GetInstance
    \/ \E path \in Paths : ExternalLexerLoad(path)
    \/ Open
    \/ GetName
    \/ Register
    \/ Retain
    \/ Bind
    \/ Push
    \/ Clear
    \/ ClearStep
    \/ Unload
    \/ DeleteInstance
    \/ Exit
    \/ StaticDtor

Spec == Init /\ [][Next]_vars

\* ------------------------------------------------------------ claims
IsPrefix(s, t) == Len(s) <= Len(t) /\ SubSeq(t, 1, Len(s)) = s

\* The call that ran last has returned to the host.
Returned == pc = "idle" /\ phase = "running"

\* The libraries retained for path: constructed for it, or storing it.
LibsFor(path) ==
    {k \in 1..Len(libraries) :
        libraries[k].reqPath = path \/ libraries[k].moduleName = path}

\* The names of the modules a catalogue refers to.
CatNames(cat) == {heap[cat[k]].name : k \in 1..Len(cat)}

\* Module m is a member of some retained library.
Owned(m) ==
    \E k \in 1..Len(libraries) :
        \E j \in 1..Len(libraries[k].modules) : libraries[k].modules[j] = m

\* C1 (as claimed): after Load(P) twice in succession, for any P, exactly
\* one retained library was made for P and the catalogue holds the same
\* names as after the first call.
C1_IdempotentLoad ==
    (Returned /\ call.op = "Load" /\ prevCall = call) =>
        /\ Cardinality(LibsFor(call.path)) = 1
        /\ CatNames(catalogue) = CatNames(pre.catalogue)

\* C2 (as claimed): no two retained libraries were constructed for the same
\* path and no two have equal moduleName.
C2_OneLibraryPerPath ==
    \A j, k \in 1..Len(libraries) :
        j # k =>
            /\ libraries[j].reqPath # libraries[k].reqPath
            /\ libraries[j].moduleName # libraries[k].moduleName

\* C3 (as claimed): between calls every pointer in the catalogue is to a
\* module that is alive and owned by a retained library.
C3_NoDanglingCatalogue ==
    pc = "idle" =>
        \A k \in 1..Len(catalogue) :
            heap[catalogue[k]].alive /\ Owned(catalogue[k])

\* C4: when Clear() has returned, libraries is empty, every module the
\* libraries owned when it was called is destroyed and every DynamicLibrary
\* they held is unloaded.
C4_ClearReleasesAll ==
    (Returned /\ call.op = "Clear") =>
        /\ libraries = <<>>
        /\ \A k \in 1..Len(pre.libraries) :
              /\ ~handles[pre.libraries[k].id].open
              /\ \A j \in 1..Len(pre.libraries[k].modules) :
                    ~heap[pre.libraries[k].modules[j]].alive

\* C4 witness: Clear() has returned and was called with a library of a
\* valid plugin that owned modules.
C4_Witness ==
    /\ Returned /\ call.op = "Clear"
    /\ \E k \in 1..Len(pre.libraries) :
          /\ handles[pre.libraries[k].id].valid
          /\ Len(pre.libraries[k].modules) = 2

\* C5: once the process has exited there is no manager, no library is
\* retained, no DynamicLibrary is open, and every manager ever constructed
\* was destroyed exactly once; at no time was one destroyed twice.
C5_TeardownReleases ==
    /\ \A m \in 1..Len(mgrDtor) : mgrDtor[m] <= 1
    /\ phase = "exited" =>
          /\ theInstance = NoInstance
          /\ dying = NoInstance
          /\ libraries = <<>>
          /\ \A h \in 1..Len(handles) : ~handles[h].open
          /\ \A m \in 1..Len(mgrDtor) : mgrDtor[m] = 1

\* C5 witness: the process has exited, and when exit began a manager
\* existed that retained two libraries, one of them open, Clear() not having
\* run since they were loaded.
C5_Witness ==
    /\ phase = "exited"
    /\ call.op = "Exit" /\ prevCall.op = "Load"
    /\ pre.theInstance # NoInstance
    /\ Len(pre.libraries) = 2
    /\ \E k \in 1..Len(pre.libraries) : handles[pre.libraries[k].id].valid

\* The call running, or the last one, is Load of a path that does not open.
BadLoad(c) == c.op = "Load" /\ ~IsValid(c.path)

\* The modules and the DynamicLibrary of every retained library are the
\* same after the step as before it.
RetainedUntouched ==
    \A k \in 1..Len(libraries) :
        /\ handles'[libraries[k].id] = handles[libraries[k].id]
        /\ \A j \in 1..Len(libraries[k].modules) :
              heap'[libraries[k].modules[j]] = heap[libraries[k].modules[j]]

\* C6, in every state of a Load of a path that does not open: the process
\* runs on, the catalogue is as it was at the call, the libraries retained
\* at the call are still there, unchanged and in place, the library under
\* construction owns no module, and on return at most one library was added,
\* made for that path and owning no module.
C6_FailSoftState ==
    BadLoad(call) =>
        /\ phase = "running"
        /\ catalogue = pre.catalogue
        /\ IsPrefix(pre.libraries, libraries)
        /\ Len(libraries) <= Len(pre.libraries) + 1
        /\ cur.modules = <<>>
        /\ \A k \in 1..Len(libraries) :
              k > Len(pre.libraries) =>
                  /\ libraries[k].modules = <<>>
                  /\ libraries[k].reqPath = call.path

\* C6: fail-soft on a bad path.  C6_FailSoftState always holds, and no step
\* of a Load of a path that does not open changes a module or the
\* DynamicLibrary of a retained library.
C6_FailSoft ==
    /\ []C6_FailSoftState
    /\ [][BadLoad(call') => RetainedUntouched]_vars

\* C6 witness: Load of a path that does not open has returned, having added
\* its library after one that owns modules.
C6_Witness ==
    /\ Returned /\ BadLoad(call)
    /\ Len(pre.libraries) = 1
    /\ Len(pre.libraries[1].modules) = 2
    /\ Len(libraries) = 2
    /\ libraries[2].reqPath = call.path

\* The first n characters of a name.
Truncated(name, n) == SubSeq(name, 1, Min(Len(name), n))

Max(a, b) == IF a > b THEN a ELSE b

\* The accessor calls of a constructor that finds count lexers.
RECURSIVE ExpectedCalls(_)
ExpectedCalls(n) ==
    IF n <= 0 THEN <<[fn |-> "GetLexerCount", idx |-> 0]>>
    ELSE ExpectedCalls(n - 1) \o
         <<[fn |-> "GetLexerName", idx |-> n - 1],
           [fn |-> "GetLexerFactory", idx |-> n - 1]>>

\* The last call was Load of a path no retained library stored, so that a
\* LexerLibrary was constructed for it.
FreshLoad(path) ==
    /\ Returned
    /\ call = [op |-> "Load", path |-> path]
    /\ ~Matches(pre.libraries, path)

\* C7: discovery.  After Load of a path not loaded yet whose library opens
\* and exports the three accessors, with N = GetLexerCount(): the catalogue
\* is the one before followed by the N new modules in index order; the new
\* library, retained last, owns just these; module i is alive, has language
\* SCLEX_AUTOMATIC, the name of lexer i (its first 99 characters) and the
\* factory GetLexerFactory(i) returned; the accessors were called for
\* 0..N-1 in order, and for N <= 0 only GetLexerCount was called.
C7_DiscoveryComplete ==
    \A path \in Paths :
        (FreshLoad(path) /\ IsValid(path) /\ Exports(path) = AllSymbols) =>
            LET n    == Max(PluginCount(path), 0)
                new  == libraries[Len(libraries)]
                base == Len(pre.catalogue)
            IN  /\ Len(libraries) = Len(pre.libraries) + 1
                /\ IsPrefix(pre.catalogue, catalogue)
                /\ Len(catalogue) = base + n
                /\ Len(new.modules) = n
                /\ new.moduleName = path
                /\ invoked = ExpectedCalls(PluginCount(path))
                /\ \A i \in 0..(n - 1) :
                      LET m == new.modules[i + 1]
                      IN  /\ catalogue[base + i + 1] = m
                          /\ ~(\E k \in 1..base : pre.catalogue[k] = m)
                          /\ heap[m].alive
                          /\ heap[m].index = i
                          /\ heap[m].lib = new.id
                          /\ heap[m].language = SCLEX_AUTOMATIC
                          /\ heap[m].name =
                                Truncated(PluginName(path, i), BufLen - 1)
                          /\ heap[m].fneFactory =
                                [lib |-> path, sym |-> "GetLexerFactory"]
                          /\ heap[m].fnFactory = PluginFactory(path, i)

\* C7 witness: the plugin with two lexers was loaded after another plugin
\* had registered a module.
C7_Witness ==
    /\ FreshLoad("two")
    /\ Len(pre.catalogue) = 1
    /\ Len(catalogue) = 3
    /\ Len(libraries) = 2

\* SetExternal has run on module m.
Bound(m) == heap[m].binds >= 1

\* Module m is the one the running loop iteration has registered in the
\* catalogue (line 130) and not yet bound (line 137).
BeingBuilt(m) == pc \in {"retain", "bind"} /\ cur.lex = m

\* A step that changes what SetExternal sets in an existing module is the
\* constructor's own call of SetExternal on the module it has just made,
\* for the library under construction, and the first one on that module.
BindOnlyInConstructor ==
    \A m \in 1..Len(heap) :
        (\/ heap'[m].binds # heap[m].binds
         \/ heap'[m].fneFactory # heap[m].fneFactory
         \/ heap'[m].fnFactory # heap[m].fnFactory) =>
            /\ pc = "bind"
            /\ cur.lex = m
            /\ heap[m].lib = cur.lib
            /\ heap[m].binds = 0
            /\ heap'[m].binds = 1

\* C8 (as claimed): in every state, the steps inside the constructor
\* included, every module in the catalogue has had its factory set; and a
\* factory is set once, by the constructor, and never changed.
C8_BoundBeforeExposed ==
    /\ [](\A k \in 1..Len(catalogue) : heap[catalogue[k]].binds = 1)
    /\ [][BindOnlyInConstructor]_vars

\* C8 (amended): while the process runs, every module in the catalogue has
\* had its factory set exactly once, except the module the running loop
\* iteration has registered and not yet bound, on which SetExternal has not
\* run; and a factory is set once, by the constructor, and never changed.
C8_BoundOnceLoadReturns ==
    /\ [](phase # "crashed" =>
            \A k \in 1..Len(catalogue) :
                IF BeingBuilt(catalogue[k])
                THEN heap[catalogue[k]].binds = 0
                ELSE heap[catalogue[k]].binds = 1)
    /\ [][BindOnlyInConstructor]_vars

\* C8 witness: inside the constructor the second module is registered and
\* not yet bound, the first one is bound.
C8_Witness ==
    /\ pc = "bind"
    /\ Len(catalogue) = 2
    /\ Bound(catalogue[1])
    /\ ~Bound(catalogue[2])
    /\ cur.lex = catalogue[2]

\* C9 (as claimed): no call is ever made through a null accessor, and the
\* process never dies in Load.
C9_NoNullAccessorCall == nullCalls = 0 /\ phase # "crashed"

\* C10: after Load of a path not loaded yet whose library opens and does
\* not export GetLexerCount: only GetLexerCount was looked up, no accessor
\* was called, the catalogue is as before, one library was added, it owns
\* no module and stores the path; and a Load of the same path right after
\* changes neither the libraries nor the catalogue.
C10_NoCountSymbol ==
    \A path \in Paths :
        (/\ Returned
         /\ call = [op |-> "Load", path |-> path]
         /\ IsValid(path)
         /\ "GetLexerCount" \notin Exports(path)) =>
            /\ ~Matches(pre.libraries, path) =>
                  /\ resolved = {"GetLexerCount"}
                  /\ invoked = <<>>
                  /\ catalogue = pre.catalogue
                  /\ Len(libraries) = Len(pre.libraries) + 1
                  /\ IsPrefix(pre.libraries, libraries)
                  /\ libraries[Len(libraries)].modules = <<>>
                  /\ libraries[Len(libraries)].moduleName = path
                  /\ handles[libraries[Len(libraries)].id].open
            /\ prevCall = call =>
                  /\ libraries = pre.libraries
                  /\ catalogue = pre.catalogue
                  /\ Cardinality(LibsFor(path)) = 1

\* C10 witness: the plugin without GetLexerCount was loaded twice in
\* succession, after a plugin that registered a module.
C10_Witness ==
    /\ Returned
    /\ call = [op |-> "Load", path |-> "nocount"]
    /\ prevCall = call
    /\ Len(libraries) = 2
    /\ libraries[2].moduleName = "nocount"
    /\ Len(catalogue) = 1

\* Some library of libs stores path as its moduleName.
StoresPath(libs, path) == \E k \in 1..Len(libs) : libs[k].moduleName = path

\* The paths of the valid plugins that export one lexer, named "X".
OneLexerX ==
    {p \in Paths :
        /\ IsValid(p) /\ Exports(p) = AllSymbols /\ PluginCount(p) = 1
        /\ PluginName(p, 0) = <<88>>}

\* The places of module m in a catalogue.
PlacesOf(cat, m) == {k \in 1..Len(cat) : cat[k] = m}

\* C11: isolation.  After Load of a one-lexer plugin q whose lexer is named
\* "X", not retained before, while a library for another such plugin p is
\* retained: the libraries before are all still there and the one for q was
\* added; the catalogue before is still there and one entry was added; the
\* modules of p and q are two modules with one catalogue entry each, both
\* alive, both named "X", each with its own library's factory.
C11_Isolation ==
    \A p, q \in OneLexerX :
        (/\ p # q
         /\ Returned
         /\ call = [op |-> "Load", path |-> q]
         /\ ~StoresPath(pre.libraries, q)
         /\ StoresPath(pre.libraries, p)) =>
            /\ Len(libraries) = Len(pre.libraries) + 1
            /\ IsPrefix(pre.libraries, libraries)
            /\ IsPrefix(pre.catalogue, catalogue)
            /\ Len(catalogue) = Len(pre.catalogue) + 1
            /\ libraries[Len(libraries)].moduleName = q
            /\ Len(libraries[Len(libraries)].modules) = 1
            /\ \A k \in 1..Len(pre.libraries) :
                  pre.libraries[k].moduleName = p =>
                      LET mp == libraries[k].modules[1]
                          mq == libraries[Len(libraries)].modules[1]
                      IN  /\ mp # mq
                          /\ Cardinality(PlacesOf(catalogue, mp)) = 1
                          /\ Cardinality(PlacesOf(catalogue, mq)) = 1
                          /\ PlacesOf(catalogue, mq) = {Len(catalogue)}
                          /\ heap[mp].alive /\ heap[mq].alive
                          /\ heap[mp].name = <<88>> /\ heap[mq].name = <<88>>
                          /\ heap[mp].lib # heap[mq].lib
                          /\ heap[mp].fnFactory = PluginFactory(p, 0)
                          /\ heap[mq].fnFactory = PluginFactory(q, 0)

\* C11 witness: "x2" was loaded right after "x1".
C11_Witness ==
    /\ Returned
    /\ call = [op |-> "Load", path |-> "x2"]
    /\ prevCall = [op |-> "Load", path |-> "x1"]
    /\ Len(libraries) = 2
    /\ Len(catalogue) = 2
    /\ heap[catalogue[1]].name = heap[catalogue[2]].name

\* The managers constructed and not destroyed.
LiveManagers == {m \in 1..Len(mgrDtor) : mgrDtor[m] = 0}

\* C12: singleton.  At most one manager is alive at any time, and it is the
\* one theInstance holds or the one being destroyed; when GetInstance()
\* has returned, theInstance holds a manager: the one it held at the call,
\* with the same libraries, or, if it held none, a new manager with no
\* library; and the catalogue is unchanged.
C12_Singleton ==
    /\ Returned /\ call.op = "GetInstance" =>
          /\ theInstance # NoInstance
          /\ catalogue = pre.catalogue
          /\ pre.theInstance # NoInstance =>
                /\ theInstance = pre.theInstance
                /\ libraries = pre.libraries
          /\ pre.theInstance = NoInstance =>
                /\ theInstance = Len(mgrDtor)
                /\ libraries = <<>>
    /\ Cardinality(LiveManagers) <= 1
    /\ LiveManagers \subseteq {theInstance, dying}
    /\ theInstance # NoInstance => theInstance \in LiveManagers

\* C12 witness: GetInstance() was called twice in succession while the
\* manager retained a library.
C12_Witness ==
    /\ Returned
    /\ call.op = "GetInstance" /\ prevCall.op = "GetInstance"
    /\ theInstance # NoInstance
    /\ Len(libraries) = 1

\* Every module and DynamicLibrary of the libraries libs is released.
AllReleased(libs) ==
    \A k \in 1..Len(libs) :
        /\ ~handles[libs[k].id].open
        /\ \A j \in 1..Len(libs[k].modules) : ~heap[libs[k].modules[j]].alive

\* When DeleteInstance() has returned there is no manager and no library,
\* the manager there was at the call was destroyed once and what its
\* libraries owned is released; a GetInstance() right after it holds a new
\* manager with no library.
C13_AfterDelete ==
    /\ (Returned /\ call.op = "DeleteInstance") =>
          /\ theInstance = NoInstance
          /\ dying = NoInstance
          /\ libraries = <<>>
          /\ catalogue = pre.catalogue
          /\ pre.theInstance # NoInstance =>
                /\ mgrDtor[pre.theInstance] = 1
                /\ AllReleased(pre.libraries)
    /\ (/\ Returned
        /\ call.op = "GetInstance"
        /\ prevCall.op = "DeleteInstance") =>
          /\ libraries = <<>>
          /\ theInstance = Len(mgrDtor)
          /\ theInstance # NoInstance
          /\ \A m \in 1..Len(mgrDtor) :
                mgrDtor[m] = IF m = theInstance THEN 0 ELSE 1

\* The step is DeleteInstance() called while there is no manager.
DeleteWithoutInstance ==
    pc = "idle" /\ call'.op = "DeleteInstance" /\ theInstance = NoInstance

\* C13: DeleteInstance() is safe and idempotent.  C13_AfterDelete always
\* holds, and DeleteInstance() called while there is no manager returns at
\* once and changes nothing.
C13_DeleteInstanceSafe ==
    /\ []C13_AfterDelete
    /\ [][DeleteWithoutInstance =>
            UNCHANGED <<phase, pc, ret, theInstance, dying, mgrDtor,
                        libraries, heap, handles, catalogue, cur, resolved,
                        invoked, nullCalls>>]_vars

\* C13 witness: GetInstance() has returned right after a DeleteInstance()
\* that destroyed the first manager, whose library had been open.
C13_Witness ==
    /\ Returned
    /\ call.op = "GetInstance" /\ prevCall.op = "DeleteInstance"
    /\ theInstance = 2
    /\ mgrDtor = <<1, 0>>
    /\ \E h \in 1..Len(handles) : handles[h].valid /\ ~handles[h].open

\* When Clear() has returned after a call with no library retained, there
\* is still no library and the manager and the catalogue are as they were;
\* and a Clear() right after a Clear() is such a call.
C14_AfterClear ==
    /\ (Returned /\ call.op = "Clear" /\ pre.libraries = <<>>) =>
          /\ libraries = <<>>
          /\ catalogue = pre.catalogue
          /\ theInstance = pre.theInstance
    /\ (Returned /\ call.op = "Clear" /\ prevCall.op = "Clear") =>
          pre.libraries = <<>>

\* The step belongs to a Clear() called with no library retained.
InEmptyClear == call'.op = "Clear" /\ pre'.libraries = <<>>

\* C14: Clear() is idempotent and safe on an empty registry.
\* C14_AfterClear always holds, and no step of a Clear() called with no
\* library retained, as is one that follows a Clear(), changes the manager,
\* a library, a module, a DynamicLibrary or the catalogue, or ends the
\* process.
C14_ClearIdempotent ==
    /\ []C14_AfterClear
    /\ [][InEmptyClear =>
            UNCHANGED <<phase, theInstance, dying, mgrDtor, libraries, heap,
                        handles, catalogue, cur, nullCalls>>]_vars

\* C14 witness: Clear() has returned right after a Clear() that released
\* two libraries.
C14_Witness ==
    /\ Returned
    /\ call.op = "Clear" /\ prevCall.op = "Clear"
    /\ pre.libraries = <<>>
    /\ Len(handles) = 2
    /\ \E h \in 1..Len(handles) : handles[h].valid /\ ~handles[h].open

\* The path of the plugin that module m was made from.
PathOf(m) == handles[heap[m].lib].path

\* C15: name truncation without overrun.  Right after GetLexerName was
\* called, the capacity it was given is 100, the buffer is 100 bytes, holds
\* the first min(length, 99) characters of the plugin's name and zeros in
\* every byte after them, so that reading the name stops inside the buffer;
\* and every module made from a plugin that exports GetLexerName is named
\* by the first min(length, 99) characters of the plugin's name.
C15_NameTruncated ==
    /\ (pc = "new" /\ cur.GetLexerName # NullPtr) =>
          LET name == PluginName(cur.path, cur.i)
              n    == Min(Len(name), BufLen - 1)
          IN  /\ cur.buflength = BufLen
              /\ Len(cur.lexname) = BufLen
              /\ \A k \in 1..BufLen :
                    cur.lexname[k] = IF k <= n THEN name[k] ELSE 0
              /\ \E k \in 1..BufLen : cur.lexname[k] = 0
    /\ \A m \in 1..Len(heap) :
          "GetLexerName" \in Exports(PathOf(m)) =>
              /\ Len(heap[m].name) <= BufLen - 1
              /\ heap[m].name =
                    Truncated(PluginName(PathOf(m), heap[m].index), BufLen - 1)

\* C15 witness: a module in the catalogue is named by the first 99 of the
\* 120 characters of its lexer's name.
C15_Witness ==
    /\ Returned
    /\ \E k \in 1..Len(catalogue) :
          LET m == catalogue[k]
          IN  /\ Len(PluginName(PathOf(m), heap[m].index)) = 120
              /\ Len(heap[m].name) = 99
              /\ heap[m].name[99] = PluginName(PathOf(m), heap[m].index)[99]

\* The step is a call of Load with a path some retained library stores.
LoadOfStoredPath ==
    /\ pc = "idle"
    /\ call'.op = "Load"
    /\ StoresPath(libraries, call'.path)

\* C16: Load(path) is a no-op on a match.  A call of Load with a path that
\* a retained library stores returns in the same step: no DynamicLibrary is
\* made, no constructor starts, and the manager, the libraries, every module
\* and the catalogue are unchanged.
C16_LoadNoOpOnMatch ==
    [][LoadOfStoredPath =>
          /\ pc' = "idle"
          /\ UNCHANGED <<phase, theInstance, dying, mgrDtor, libraries, heap,
                         handles, catalogue, cur, resolved, invoked,
                         nullCalls>>]_vars

\* C16 witness: Load has returned on a match with the library of a plugin
\* that had registered two modules.
C16_Witness ==
    /\ Returned
    /\ call.op = "Load"
    /\ StoresPath(pre.libraries, call.path)
    /\ libraries = pre.libraries
    /\ Len(catalogue) = 2
    /\ Len(handles) = 1

\* The entries a Load that has returned added to the catalogue: the count
\* of the library it constructed, if it constructed one and the count is
\* positive.
C17_AddedByLoad ==
    (Returned /\ call.op = "Load") =>
        Len(catalogue) - Len(pre.catalogue) =
            IF StoresPath(pre.libraries, call.path)
            THEN 0
            ELSE Max(CountOf(call.path), 0)

\* C17: the core only appends to the catalogue.  Every step leaves the
\* catalogue a prefix of what it becomes; a step of GetInstance, Clear,
\* DeleteInstance or process exit leaves it unchanged; a step that changes
\* it adds one entry and belongs to a Load constructing a library of
\* positive count; and C17_AddedByLoad always holds.
C17_CatalogueAppendOnly ==
    /\ []C17_AddedByLoad
    /\ [][/\ IsPrefix(catalogue, catalogue')
          /\ call'.op # "Load" => catalogue' = catalogue
          /\ catalogue' # catalogue =>
                /\ Len(catalogue') = Len(catalogue) + 1
                /\ call'.op = "Load"
                /\ pc = "new"
                /\ cur.i < CountOf(call'.path)]_vars

\* C17 witness: the process has exited after a Clear(), and the catalogue
\* still holds the three entries two Loads added.
C17_Witness ==
    /\ phase = "exited"
    /\ prevCall.op = "Clear"
    /\ Len(catalogue) = 3
    /\ catalogue = pre.catalogue
    /\ \A k \in 1..Len(catalogue) : ~heap[catalogue[k]].alive

\* Between calls: the libraries are in the order they were constructed in;
\* they are those retained when the last call started, unchanged and in
\* place, with at most one added by a Load, or there is none, and there is
\* none after Clear() and DeleteInstance().
C18_RetainedBetweenCalls ==
    /\ \A j, k \in 1..Len(libraries) :
          j < k => libraries[j].id < libraries[k].id
    /\ Returned =>
          /\ call.op \in {"Load", "GetInstance", "none"} =>
                /\ IsPrefix(pre.libraries, libraries)
                /\ Len(libraries) <= Len(pre.libraries) + 1
          /\ call.op \in {"Clear", "DeleteInstance"} => libraries = <<>>

\* C18: a retained library is immutable and removed only wholesale.
\* C18_RetainedBetweenCalls always holds; a step of Load or GetInstance
\* keeps every retained library in place, with its moduleName, its
\* DynamicLibrary and its modules unchanged; a step that adds a library is
\* the push_back that ends a Load; and a step that takes from a retained
\* library or removes it belongs to Clear(), DeleteInstance() or the exit
\* of the process.
C18_LibrariesImmutable ==
    /\ []C18_RetainedBetweenCalls
    /\ [][/\ call'.op \in {"Load", "GetInstance"} =>
                /\ IsPrefix(libraries, libraries')
                /\ RetainedUntouched
          /\ Len(libraries') > Len(libraries) =>
                /\ pc = "push"
                /\ call.op = "Load"
                /\ Len(libraries') = Len(libraries) + 1
                /\ libraries'[Len(libraries')].reqPath = call.path
          /\ ~IsPrefix(libraries, libraries') =>
                /\ pc \in {"clear", "unload"}
                /\ call.op \in {"Clear", "DeleteInstance", "Exit"}]_vars

\* C18 witness: a second Load has returned and the library of the first,
\* with its two modules alive and its DynamicLibrary open, is in first
\* place as before.
C18_Witness ==
    /\ Returned
    /\ call.op = "Load" /\ prevCall.op = "Load"
    /\ Len(libraries) = 2
    /\ libraries[1] = pre.libraries[1]
    /\ Len(libraries[1].modules) = 2
    /\ \A j \in 1..2 : heap[libraries[1].modules[j]].alive
    /\ handles[libraries[1].id].open

\* C19: release order inside a library.  In every state, the DynamicLibrary
\* of the library that a module which is alive was made for is still open:
\* when a library is destroyed its modules go before its DynamicLibrary.
C19_ModulesBeforeHandle ==
    \A m \in 1..Len(heap) :
        heap[m].alive =>
            /\ handles[heap[m].lib].valid
            /\ handles[heap[m].lib].open

\* C19 witness: a library is half destroyed, its two modules gone and its
\* DynamicLibrary still open.
C19_Witness ==
    /\ pc = "unload"
    /\ handles[Head(libraries).id].open
    /\ Cardinality({m \in 1..Len(heap) :
                       heap[m].lib = Head(libraries).id /\ ~heap[m].alive}) = 2

\* The catalogue entries for modules made from the plugin at path.
EntriesOf(cat, path) == {k \in 1..Len(cat) : PathOf(cat[k]) = path}

\* C20: deduplication is only against the libraries retained now.  After
\* Load of a path P that opens and exports the three accessors, that was
\* loaded before (h earlier DynamicLibrary objects were made for it) and
\* that no library retained at the call stored: a new DynamicLibrary was
\* opened for P, one library was added, storing P and owning N new modules
\* that are alive, and the catalogue is the one before followed by these N,
\* holding (h + 1) * N entries for P, with N = max(GetLexerCount(), 0).
C20_DedupOnlyRetained ==
    \A path \in Paths :
        LET n       == Max(PluginCount(path), 0)
            earlier == {h \in 1..(Len(handles) - 1) : handles[h].path = path}
        IN  (/\ Returned
             /\ call = [op |-> "Load", path |-> path]
             /\ IsValid(path) /\ Exports(path) = AllSymbols
             /\ ~StoresPath(pre.libraries, path)
             /\ earlier # {}) =>
                LET new == libraries[Len(libraries)]
                IN  /\ Len(libraries) = Len(pre.libraries) + 1
                    /\ IsPrefix(pre.libraries, libraries)
                    /\ new.moduleName = path
                    /\ new.id = Len(handles)
                    /\ handles[new.id].path = path
                    /\ handles[new.id].open
                    /\ \A h \in earlier : ~handles[h].open
                    /\ Len(new.modules) = n
                    /\ IsPrefix(pre.catalogue, catalogue)
                    /\ Len(catalogue) = Len(pre.catalogue) + n
                    /\ \A i \in 1..n :
                          /\ catalogue[Len(pre.catalogue) + i] = new.modules[i]
                          /\ heap[new.modules[i]].alive
                          /\ PlacesOf(pre.catalogue, new.modules[i]) = {}
                    /\ Cardinality(EntriesOf(catalogue, path)) =
                          (Cardinality(earlier) + 1) * n

\* C20 witness: the plugin with two lexers was loaded, released by Clear()
\* and loaded again; the catalogue holds four entries, the first two for
\* destroyed modules.
C20_Witness ==
    /\ Returned
    /\ call = [op |-> "Load", path |-> "two"]
    /\ prevCall.op = "Clear"
    /\ Len(handles) = 2
    /\ handles[1].path = "two"
    /\ Len(catalogue) = 4
    /\ ~heap[catalogue[1]].alive
    /\ heap[catalogue[3]].alive

====
